---- MODULE Spec2Model ----
(***************************************************************************)
(* Model of server/db/compare.rs (Moonfire NVR): comparison of the schema  *)
(* of two SQLite connections.  get_diffs is modelled statement by          *)
(* statement: one action per pair of introspection queries, each of which  *)
(* may fail.  Names (tables, columns, indices) are small integers whose    *)
(* order stands for the lexicographic order of the strings.                *)
(***************************************************************************)
EXTENDS Integers, Sequences, FiniteSets, TLC

\* ------------------------------------------------------------------------
\* Bounds of the model
\* ------------------------------------------------------------------------
\* Names a schema may use.
TableNames == {1, 2}
ColNames == {1, 2}
IdxNames == {1, 2}
\* Largest schema: tables + columns + indices + index columns.
MaxSize == 6

Labels == {"actual", "expected"}
\* What a failing introspection query reports (rusqlite::Error).
ErrKinds == {"SqliteFailure", "InvalidColumnType"}
Outcomes == {"ok"} \cup ErrKinds
\* What the database does with a pair of queries: when the first fails the
\* second is never issued.
OutcomePairs ==
    {o \in Outcomes \X Outcomes : o[1] # "ok" => o[2] = "ok"}

\* ------------------------------------------------------------------------
\* Generic helpers
\* ------------------------------------------------------------------------
Range(s) == {s[k] : k \in DOMAIN s}

Injective(s) == \A a, b \in DOMAIN s : s[a] = s[b] => a = b

\* Sequences without repetition over S (the empty one included).
InjSeqs(S) ==
    UNION {{s \in [1..n -> S] : Injective(s)} : n \in 0..Cardinality(S)}

Pos(s, x) == CHOOSE k \in DOMAIN s : s[k] = x

RECURSIVE SumOver(_, _)
SumOver(S, f) ==
    IF S = {} THEN 0
    ELSE LET x == CHOOSE y \in S : TRUE IN f[x] + SumOver(S \ {x}, f)

\* ------------------------------------------------------------------------
\* A connection's catalog.  cols[t] are the column names of table t in
\* ordinal order (<<>>: no such table), idx[t] the names of the indices on
\* t in the order the catalog enumerates them, icols[i] the column names of
\* index i in key order (<<>>: no such index).
\* ------------------------------------------------------------------------
Tables(c) == {t \in TableNames : c.cols[t] # <<>>}

IndicesOf(c) == UNION {Range(c.idx[t]) : t \in TableNames}

Owner(c, i) == CHOOSE t \in TableNames : i \in Range(c.idx[t])

ValidCatalog(c) ==
    /\ \A t \in TableNames : c.idx[t] # <<>> => c.cols[t] # <<>>
    /\ \A t, u \in TableNames : t # u => Range(c.idx[t]) \cap Range(c.idx[u]) = {}
    /\ \A i \in IdxNames :
          IF i \in IndicesOf(c)
          THEN /\ c.icols[i] # <<>>
               /\ Range(c.icols[i]) \subseteq Range(c.cols[Owner(c, i)])
          ELSE c.icols[i] = <<>>

Size(c) ==
    SumOver(Tables(c), [t \in TableNames |-> 1 + Len(c.cols[t])])
    + SumOver(IndicesOf(c), [i \in IdxNames |-> 1 + Len(c.icols[i])])

Catalogs ==
    {c \in [cols : [TableNames -> InjSeqs(ColNames)],
            idx : [TableNames -> InjSeqs(IdxNames)],
            icols : [IdxNames -> InjSeqs(ColNames)]] :
        ValidCatalog(c) /\ Size(c) <= MaxSize}

\* ------------------------------------------------------------------------
\* Records (compare.rs 13-55)
\* ------------------------------------------------------------------------
Null == "Null"

Column(cid, name) ==
    [cid |-> cid, name |-> name, type_ |-> "integer", notnull |-> FALSE,
     dflt_value |-> Null, pk |-> 0]

Index(seq, name) ==
    [seq |-> seq, name |-> name, unique |-> FALSE, origin |-> "c",
     partial |-> FALSE]

IndexColumn(seqno, cid, name) == [seqno |-> seqno, cid |-> cid, name |-> name]

\* Display: a String writes itself, the structs write their derived Debug
\* form, which names the struct and every field.
Display(T, i) ==
    CASE T = "String" -> i
      [] T = "Column" ->
            <<"Column", i.cid, i.name, i.type_, i.notnull, i.dflt_value, i.pk>>
      [] T = "Index" -> <<"Index", i.seq, i.name, i.unique, i.origin, i.partial>>
      [] T = "IndexColumn" -> <<"IndexColumn", i.seqno, i.cid, i.name>>

\* ------------------------------------------------------------------------
\* Results
\* ------------------------------------------------------------------------
None == [tag |-> "None"]
Some(v) == [tag |-> "Some", v |-> v]
Ok(v) == [tag |-> "Ok", v |-> v]
Err(e) == [tag |-> "Err", e |-> e]

\* ------------------------------------------------------------------------
\* diff::slice (the diff crate, called at compare.rs 66): the longest
\* common subsequence table over prefixes, walked back from the ends, an
\* item of the second slice taken before one of the first where both keep
\* the length (so that, read forwards, '-' lines come before '+' lines).
\* ------------------------------------------------------------------------
Max(a, b) == IF a >= b THEN a ELSE b

RECURSIVE lcs(_, _, _, _)
lcs(x, y, i, j) ==
    IF i = 0 \/ j = 0 THEN 0
    ELSE IF x[i] = y[j] THEN lcs(x, y, i - 1, j - 1) + 1
    ELSE Max(lcs(x, y, i - 1, j), lcs(x, y, i, j - 1))

Left(i) == [tag |-> "Left", item |-> i]
Both(i) == [tag |-> "Both", item |-> i]
Right(i) == [tag |-> "Right", item |-> i]

RECURSIVE walk(_, _, _, _)
walk(x, y, i, j) ==
    IF j > 0 /\ (i = 0 \/ lcs(x, y, i, j) = lcs(x, y, i, j - 1))
    THEN Append(walk(x, y, i, j - 1), Right(y[j]))
    ELSE IF i > 0 /\ (j = 0 \/ lcs(x, y, i, j) = lcs(x, y, i - 1, j))
    THEN Append(walk(x, y, i - 1, j), Left(x[i]))
    ELSE IF i > 0 /\ j > 0
    THEN Append(walk(x, y, i - 1, j - 1), Both(x[i]))
    ELSE <<>>

slice(x, y) == walk(x, y, Len(x), Len(y))

\* ------------------------------------------------------------------------
\* diff_slices (compare.rs 57-84).  The text is kept as its lines: the two
\* header lines, then one line per item.
\* ------------------------------------------------------------------------
Line(prefix, text) == [prefix |-> prefix, text |-> text]

\* Variant: the '-' and '+' prefixes exchanged.
DiffLine_Swapped(T, item) ==
    CASE item.tag = "Left" -> Line("+", Display(T, item.item))
      [] item.tag = "Both" -> Line(" ", Display(T, item.item))
      [] item.tag = "Right" -> Line("-", Display(T, item.item))

DiffLine(T, item) ==
    CASE item.tag = "Left" -> Line("-", Display(T, item.item))
      [] item.tag = "Both" -> Line(" ", Display(T, item.item))
      [] item.tag = "Right" -> Line("+", Display(T, item.item))

Changed(items) == \E k \in DOMAIN items : items[k].tag \in {"Left", "Right"}

\* Variant: the early return of None forgotten.
diff_slices_NoNone(T, name1, slice1, name2, slice2) ==
    LET items == slice(slice1, slice2)
    IN Some(<<Line("---", name1), Line("+++", name2)>>
            \o [k \in DOMAIN items |-> DiffLine(T, items[k])])

\* Variant: `changed` set for the items of slice1 only.
diff_slices_LeftOnly(T, name1, slice1, name2, slice2) ==
    LET items == slice(slice1, slice2)
        diff == <<Line("---", name1), Line("+++", name2)>>
                \o [k \in DOMAIN items |-> DiffLine(T, items[k])]
    IN IF \A k \in DOMAIN items : items[k].tag # "Left" THEN None ELSE Some(diff)

diff_slices(T, name1, slice1, name2, slice2) ==
    LET items == slice(slice1, slice2)
        diff == <<Line("---", name1), Line("+++", name2)>>
                \o [k \in DOMAIN items |-> DiffLine(T, items[k])]
    IN IF ~Changed(items) THEN None ELSE Some(diff)

\* ------------------------------------------------------------------------
\* Introspection (compare.rs 86-157).  o is what the database does with the
\* query: "ok", or the error it reports.  The pragmas return no rows for a
\* table or index the connection does not have.  The first column of every
\* pragma row (cid, seq, seqno) is the row's position in the answer, from 0.
\* ------------------------------------------------------------------------
RECURSIVE SortNames(_)
SortNames(S) ==
    IF S = {} THEN <<>>
    ELSE LET m == CHOOSE x \in S : \A y \in S : x <= y
         IN <<m>> \o SortNames(S \ {m})

get_tables(c, o) ==
    IF o # "ok" THEN Err(o) ELSE Ok(SortNames(Tables(c)))

\* Variant: the column's name not read.
get_table_columns_NoName(c, table, o) ==
    IF o # "ok" THEN Err(o)
    ELSE Ok([k \in DOMAIN c.cols[table] |-> Column(k - 1, 0)])

get_table_columns(c, table, o) ==
    IF o # "ok" THEN Err(o)
    ELSE Ok([k \in DOMAIN c.cols[table] |-> Column(k - 1, c.cols[table][k])])

get_indices(c, table, o) ==
    IF o # "ok" THEN Err(o)
    ELSE Ok([k \in DOMAIN c.idx[table] |-> Index(k - 1, c.idx[table][k])])

\* Variant: the rows taken in the order of the column names.
get_index_columns_ByName(c, index, o) ==
    IF o # "ok" THEN Err(o)
    ELSE LET names == SortNames(Range(c.icols[index]))
         IN Ok([k \in DOMAIN names |->
                   IndexColumn(Pos(c.icols[index], names[k]) - 1,
                               Pos(c.cols[Owner(c, index)], names[k]) - 1,
                               names[k])])

get_index_columns(c, index, o) ==
    IF o # "ok" THEN Err(o)
    ELSE Ok([k \in DOMAIN c.icols[index] |->
                IndexColumn(k - 1,
                            Pos(c.cols[Owner(c, index)], c.icols[index][k]) - 1,
                            c.icols[index][k])])

\* ------------------------------------------------------------------------
\* get_diffs (compare.rs 159-203)
\* ------------------------------------------------------------------------
VARIABLES
    n1, c1, n2, c2,     \* the arguments of the call in progress
    pc,                 \* the statement get_diffs is at
    diffs,              \* the blocks written so far
    tables1,            \* get_tables(c1)
    t,                  \* position of the for loop in tables1
    indices1,           \* the sorted indices of table tables1[t] on c1
    i,                  \* position of the for loop in indices1
    result,             \* what the call returned
    queries,            \* history: the introspection queries issued, in order
    reported,           \* history: the error the database reported, if any
    last,               \* history: the latest diff_slices call and its result
    call,               \* 1: the first call, 2: the one that follows it
    first               \* result and queries of the first call

vars == <<n1, c1, n2, c2, pc, diffs, tables1, t, indices1, i, result, queries,
          reported, last, call, first>>

NoResult == [tag |-> "NoResult"]
NoCall == [T |-> "none"]

Query(fn, conn, arg) == [fn |-> fn, conn |-> conn, arg |-> arg]

\* The queries a pair of calls issues: the second is not reached when the
\* first fails.
Issued(q1, q2, o1) == IF o1 # "ok" THEN <<q1>> ELSE <<q1, q2>>

\* What the database reported to the pair of calls: the first error, if any.
Reported(before, o1, o2) ==
    IF o1 # "ok" THEN o1 ELSE IF o2 # "ok" THEN o2 ELSE before

\* Variant: the second connection's list drives the loop.
ForEach_Second(list1, list2) == list2

\* `for t in &tables1`, `for i in &indices1`: the first connection's list
\* drives the loop.
ForEach(list1, list2) == list1

\* Variant: a failure on the second connection taken for "no rows".
Try_SwallowSecond(r1, r2) ==
    IF r1.tag = "Err" THEN r1
    ELSE IF r2.tag = "Err" THEN Ok(<<r1.v, <<>>>>)
    ELSE Ok(<<r1.v, r2.v>>)

\* Variant: the database's error replaced by one of get_diffs' own.
Try_Generic(r1, r2) ==
    IF r1.tag = "Err" \/ r2.tag = "Err" THEN Err("comparison failed")
    ELSE Ok(<<r1.v, r2.v>>)

\* `let a = f(c1)?; let b = f(c2)?;`: the first error returns from get_diffs,
\* converted to failure::Error as it is.
Try(r1, r2) ==
    IF r1.tag = "Err" THEN r1
    ELSE IF r2.tag = "Err" THEN r2
    ELSE Ok(<<r1.v, r2.v>>)

\* The label line of a block and the diff below it.
Block(kind, table, index, name1, name2, diff) ==
    [kind |-> kind, table |-> table, index |-> index,
     n1 |-> name1, n2 |-> name2, diff |-> diff]

\* `if let Some(diff) = diff_slices(..) { write!(&mut diffs, ..)?; }`
Push(ds, kind, table, index, name1, name2, d) ==
    IF d.tag = "Some"
    THEN Append(ds, Block(kind, table, index, name1, name2, d.v))
    ELSE ds

\* indices.sort_by(|a, b| a.name.cmp(&b.name)): a stable sort by name.
RECURSIVE sort_by_name(_)
sort_by_name(s) ==
    IF s = <<>> THEN <<>>
    ELSE LET k == CHOOSE a \in DOMAIN s :
                     /\ \A b \in DOMAIN s : s[a].name <= s[b].name
                     /\ \A b \in 1..(a - 1) : s[b].name # s[a].name
             rest == [m \in 1..(Len(s) - 1) |-> IF m < k THEN s[m] ELSE s[m + 1]]
         IN <<s[k]>> \o sort_by_name(rest)

\* Variant: the report returned even when it is empty.
Finish_AlwaysSome(ds) == Ok(Some(ds))

\* Ok(if diffs.is_empty() { None } else { Some(diffs) })
Finish(ds) == Ok(IF ds = <<>> THEN None ELSE Some(ds))

DiffCall(T, name1, slice1, name2, slice2) ==
    [T |-> T, name1 |-> name1, slice1 |-> slice1, name2 |-> name2,
     slice2 |-> slice2, out |-> diff_slices(T, name1, slice1, name2, slice2)]

\* A `?` that returns early: the locals are dropped.
Fail(r, qs, o1, o2) ==
    /\ pc' = "done"
    /\ result' = r
    /\ queries' = queries \o qs
    /\ reported' = Reported(reported, o1, o2)
    /\ diffs' = <<>>
    /\ tables1' = <<>>
    /\ t' = 0
    /\ indices1' = <<>>
    /\ i' = 0
    /\ UNCHANGED <<n1, c1, n2, c2, last, call, first>>

\* The head of `for t in &tables1`, reached after the table at position k.
NextTable(k) ==
    IF k < Len(tables1')
    THEN pc' = "columns" /\ t' = k + 1
    ELSE pc' = "return" /\ t' = 0

\* compare.rs 167-172
CompareTables ==
    /\ pc = "tables"
    /\ \E o \in OutcomePairs :
          LET o1 == o[1]
              o2 == o[2]
              r == Try(get_tables(c1, o1), get_tables(c2, o2))
              qs == Issued(Query("get_tables", 1, 0), Query("get_tables", 2, 0), o1)
          IN IF r.tag = "Err" THEN Fail(r, qs, o1, o2)
             ELSE LET d == DiffCall("String", n1, r.v[1], n2, r.v[2])
                  IN /\ tables1' = ForEach(r.v[1], r.v[2])
                     /\ diffs' = Push(diffs, "table list mismatch", 0, <<>>,
                                      n1, n2, d.out)
                     /\ last' = d
                     /\ queries' = queries \o qs
                     /\ reported' = Reported(reported, o1, o2)
                     /\ NextTable(0)
                     /\ indices1' = <<>>
                     /\ i' = 0
                     /\ UNCHANGED <<n1, c1, n2, c2, result, call, first>>

\* compare.rs 176-180
CompareColumns ==
    /\ pc = "columns"
    /\ \E o \in OutcomePairs :
          LET o1 == o[1]
              o2 == o[2]
              table == tables1[t]
              r == Try(get_table_columns(c1, table, o1),
                       get_table_columns(c2, table, o2))
              qs == Issued(Query("get_table_columns", 1, table),
                           Query("get_table_columns", 2, table), o1)
          IN IF r.tag = "Err" THEN Fail(r, qs, o1, o2)
             ELSE LET d == DiffCall("Column", n1, r.v[1], n2, r.v[2])
                  IN /\ diffs' = Push(diffs, "column", table, <<>>, n1, n2, d.out)
                     /\ last' = d
                     /\ queries' = queries \o qs
                     /\ reported' = Reported(reported, o1, o2)
                     /\ pc' = "indices"
                     /\ UNCHANGED <<n1, c1, n2, c2, tables1, t, indices1, i,
                                    result, call, first>>

\* compare.rs 182-188, and the head of `for i in &indices1`
CompareIndices ==
    /\ pc = "indices"
    /\ \E o \in OutcomePairs :
          LET o1 == o[1]
              o2 == o[2]
              table == tables1[t]
              r == Try(get_indices(c1, table, o1), get_indices(c2, table, o2))
              qs == Issued(Query("get_indices", 1, table),
                           Query("get_indices", 2, table), o1)
          IN IF r.tag = "Err" THEN Fail(r, qs, o1, o2)
             ELSE LET sorted1 == sort_by_name(r.v[1])
                      sorted2 == sort_by_name(r.v[2])
                      loop == ForEach(sorted1, sorted2)
                      d == DiffCall("Index", n1, sorted1, n2, sorted2)
                  IN /\ diffs' = Push(diffs, "indices", table, <<>>, n1, n2, d.out)
                     /\ last' = d
                     /\ queries' = queries \o qs
                     /\ reported' = Reported(reported, o1, o2)
                     /\ tables1' = tables1
                     /\ IF loop = <<>>
                        THEN NextTable(t) /\ indices1' = <<>> /\ i' = 0
                        ELSE /\ pc' = "index_columns"
                             /\ indices1' = loop
                             /\ i' = 1
                             /\ t' = t
                     /\ UNCHANGED <<n1, c1, n2, c2, result, call, first>>

\* compare.rs 190-199
CompareIndexColumns ==
    /\ pc = "index_columns"
    /\ \E o \in OutcomePairs :
          LET o1 == o[1]
              o2 == o[2]
              table == tables1[t]
              index == indices1[i]
              r == Try(get_index_columns(c1, index.name, o1),
                       get_index_columns(c2, index.name, o2))
              qs == Issued(Query("get_index_columns", 1, index.name),
                           Query("get_index_columns", 2, index.name), o1)
          IN IF r.tag = "Err" THEN Fail(r, qs, o1, o2)
             ELSE LET d == DiffCall("IndexColumn", n1, r.v[1], n2, r.v[2])
                  IN /\ diffs' = Push(diffs, "index columns", table,
                                      Display("Index", index), n1, n2, d.out)
                     /\ last' = d
                     /\ queries' = queries \o qs
                     /\ reported' = Reported(reported, o1, o2)
                     /\ tables1' = tables1
                     /\ IF i < Len(indices1)
                        THEN /\ pc' = "index_columns"
                             /\ i' = i + 1
                             /\ t' = t
                             /\ indices1' = indices1
                        ELSE NextTable(t) /\ indices1' = <<>> /\ i' = 0
                     /\ UNCHANGED <<n1, c1, n2, c2, result, call, first>>

\* compare.rs 202
Return ==
    /\ pc = "return"
    /\ pc' = "done"
    /\ result' = Finish(diffs)
    /\ diffs' = <<>>
    /\ tables1' = <<>>
    /\ UNCHANGED <<n1, c1, n2, c2, t, indices1, i, queries, reported, last,
                   call, first>>

\* A caller that, after a comparison that did not fail, compares the same
\* two connections the other way round.
CallSwapped ==
    /\ pc = "done"
    /\ call = 1
    /\ result.tag = "Ok"
    /\ call' = 2
    /\ first' = [result |-> result, queries |-> queries]
    /\ n1' = n2 /\ c1' = c2 /\ n2' = n1 /\ c2' = c1
    /\ pc' = "tables"
    /\ result' = NoResult
    /\ queries' = <<>>
    /\ reported' = "none"
    /\ last' = NoCall
    /\ UNCHANGED <<diffs, tables1, t, indices1, i>>

\* A caller that repeats a comparison that failed.
CallAgain ==
    /\ pc = "done"
    /\ call = 1
    /\ result.tag = "Err"
    /\ call' = 2
    /\ first' = [result |-> result, queries |-> queries]
    /\ pc' = "tables"
    /\ result' = NoResult
    /\ queries' = <<>>
    /\ reported' = "none"
    /\ last' = NoCall
    /\ UNCHANGED <<n1, c1, n2, c2, diffs, tables1, t, indices1, i>>

Start ==
    /\ pc = "tables"
    /\ diffs = <<>>
    /\ tables1 = <<>>
    /\ t = 0
    /\ indices1 = <<>>
    /\ i = 0
    /\ result = NoResult
    /\ queries = <<>>
    /\ reported = "none"
    /\ last = NoCall
    /\ call = 1
    /\ first = [result |-> NoResult, queries |-> <<>>]

\* An order on catalogs: their sequences written one after the other, each
\* closed by a 0, compared as words.
RECURSIVE Flatten(_)
Flatten(ss) ==
    IF ss = <<>> THEN <<>> ELSE Head(ss) \o <<0>> \o Flatten(Tail(ss))

Key(c) ==
    LET tables == SortNames(TableNames)
        indices == SortNames(IdxNames)
    IN Flatten([k \in DOMAIN tables |-> c.cols[tables[k]]]
               \o [k \in DOMAIN tables |-> c.idx[tables[k]]]
               \o [k \in DOMAIN indices |-> c.icols[indices[k]]])

RECURSIVE LexLeq(_, _)
LexLeq(a, b) ==
    IF a = <<>> THEN TRUE
    ELSE IF b = <<>> THEN FALSE
    ELSE IF Head(a) # Head(b) THEN Head(a) < Head(b)
    ELSE LexLeq(Tail(a), Tail(b))

\* Every pair of catalogs is compared in both directions: the first call
\* takes the pair in the order of the keys, the call that follows it
\* (CallSwapped) the other way round.  The caller labels the two sides
\* differently; a connection compared with itself may carry the same label
\* twice.
Init ==
    /\ c1 \in Catalogs
    /\ c2 \in Catalogs
    /\ LexLeq(Key(c1), Key(c2))
    /\ n1 = "actual"
    /\ n2 \in Labels
    /\ n2 = n1 => c2 = c1
    /\ Start

Next ==
    \/ CompareTables
    \/ CompareColumns
    \/ CompareIndices
    \/ CompareIndexColumns
    \/ Return
    \/ CallSwapped

Spec == Init /\ [][Next]_vars

\* The same connection compared with itself, the comparison repeated after a
\* failure.
InitErr ==
    /\ c1 \in Catalogs
    /\ c2 = c1
    /\ n1 = "actual"
    /\ n2 = "expected"
    /\ Start

NextErr ==
    \/ CompareTables
    \/ CompareColumns
    \/ CompareIndices
    \/ CompareIndexColumns
    \/ Return
    \/ CallAgain

SpecErr == InitErr /\ [][NextErr]_vars

\* diff_slices on its own, applied to two slices of strings.
MaxLen == 3
Items == {1, 2, 3}
Slices == UNION {[1..n -> Items] : n \in 0..MaxLen}

EmptyCatalog ==
    [cols |-> [table \in TableNames |-> <<>>],
     idx |-> [table \in TableNames |-> <<>>],
     icols |-> [index \in IdxNames |-> <<>>]]

InitDiff ==
    /\ c1 = EmptyCatalog
    /\ c2 = EmptyCatalog
    /\ n1 = "actual"
    /\ n2 = "expected"
    /\ pc = "diff_slices"
    /\ diffs = <<>>
    /\ tables1 = <<>>
    /\ t = 0
    /\ indices1 = <<>>
    /\ i = 0
    /\ result = NoResult
    /\ queries = <<>>
    /\ reported = "none"
    /\ \E slice1, slice2 \in Slices :
          last = [T |-> "String", name1 |-> n1, slice1 |-> slice1,
                  name2 |-> n2, slice2 |-> slice2, out |-> NoResult]
    /\ call = 1
    /\ first = [result |-> NoResult, queries |-> <<>>]

CallDiffSlices ==
    /\ pc = "diff_slices"
    /\ pc' = "done"
    /\ last' = DiffCall(last.T, last.name1, last.slice1, last.name2, last.slice2)
    /\ UNCHANGED <<n1, c1, n2, c2, diffs, tables1, t, indices1, i, result,
                   queries, reported, call, first>>

NextDiff == CallDiffSlices

SpecDiff == InitDiff /\ [][NextDiff]_vars

\* ------------------------------------------------------------------------
\* Properties
\* ------------------------------------------------------------------------
Blocks(res) ==
    IF res.tag = "Ok" /\ res.v.tag = "Some" THEN res.v.v ELSE <<>>

Returned == pc = "done" /\ result.tag = "Ok"

\* Lines of a diff below its header with one of the prefixes, in order.
RECURSIVE Keep(_, _)
Keep(lines, prefixes) ==
    IF lines = <<>> THEN <<>>
    ELSE IF Head(lines).prefix \in prefixes
    THEN <<Head(lines).text>> \o Keep(Tail(lines), prefixes)
    ELSE Keep(Tail(lines), prefixes)

Body(diff) == SubSeq(diff, 3, Len(diff))

Rows(r) == r.v

\* C1: once the database has reported an error to an introspection query of
\* get_diffs, the call is over and its result is an error: never Ok(None),
\* never Ok(Some(..)) with the blocks written before the failure.
C1_FailureIsError ==
    reported # "none" => pc = "done" /\ result.tag = "Err"

\* A query failed after the table list block had been written.
C1_Witness ==
    /\ reported # "none"
    /\ result.tag = "Err"
    /\ Len(queries) >= 3
    /\ Tables(c1) # Tables(c2)

\* The two connections are structurally identical as introspected.
Identical(a, b) ==
    /\ Rows(get_tables(a, "ok")) = Rows(get_tables(b, "ok"))
    /\ \A table \in Tables(a) \cup Tables(b) :
          /\ Rows(get_table_columns(a, table, "ok"))
                = Rows(get_table_columns(b, table, "ok"))
          /\ sort_by_name(Rows(get_indices(a, table, "ok")))
                = sort_by_name(Rows(get_indices(b, table, "ok")))
    /\ \A index \in IndicesOf(a) \cup IndicesOf(b) :
          Rows(get_index_columns(a, index, "ok"))
             = Rows(get_index_columns(b, index, "ok"))

\* C2: a call that returns Ok returns None exactly when the two connections
\* are structurally identical as introspected, and never Some of an empty
\* report.
C2_AbsentIffIdentical ==
    Returned =>
        /\ result.v = None <=> Identical(c1, c2)
        /\ result.v.tag = "Some" => result.v.v # <<>>

\* The second connection has a table more, and the report is present.
C2_Witness ==
    /\ Returned
    /\ result.v.tag = "Some"
    /\ Tables(c1) # {}
    /\ Tables(c1) # Tables(c2)
    /\ Tables(c1) \subseteq Tables(c2)
    /\ \A table \in Tables(c1) : c1.cols[table] = c2.cols[table]

\* C3: a connection compared with itself, no query failing, gives Ok(None).
C3_Reflexive ==
    (pc = "done" /\ c1 = c2 /\ reported = "none") => result = Ok(None)

C3_Witness ==
    /\ pc = "done"
    /\ c1 = c2
    /\ n1 = n2
    /\ IndicesOf(c1) # {}
    /\ result = Ok(None)

\* C5 (as claimed): a table with the same set of indices on both
\* connections, whatever the order the catalogs enumerate them in, gets no
\* "indices" block.
C5_IndexOrderIndependent ==
    Returned =>
        \A table \in Tables(c1) :
            Range(c1.idx[table]) = Range(c2.idx[table]) =>
                \A k \in DOMAIN Blocks(result) :
                    ~(/\ Blocks(result)[k].kind = "indices"
                      /\ Blocks(result)[k].table = table)

\* C6: an index of the first connection's tables that the second connection
\* has too, with the same columns in another order, gets an "index columns"
\* block labelled with its table and itself, whose '-' and ' ' lines are the
\* first connection's index columns in key order and whose '+' and ' ' lines
\* are the second connection's.
C6_IndexColumnOrder ==
    Returned =>
        \A index \in IndicesOf(c1) \cap IndicesOf(c2) :
            (/\ Range(c1.icols[index]) = Range(c2.icols[index])
             /\ c1.icols[index] # c2.icols[index]) =>
                \E k \in DOMAIN Blocks(result) :
                    LET b == Blocks(result)[k]
                        old == Keep(Body(b.diff), {"-", " "})
                        new == Keep(Body(b.diff), {"+", " "})
                    IN /\ b.kind = "index columns"
                       /\ b.table = Owner(c1, index)
                       /\ b.index[3] = index
                       /\ [m \in DOMAIN old |-> old[m][4]] = c1.icols[index]
                       /\ [m \in DOMAIN new |-> new[m][4]] = c2.icols[index]

C6_Witness ==
    /\ Returned
    /\ \E index \in IndicesOf(c1) \cap IndicesOf(c2) :
          /\ Range(c1.icols[index]) = Range(c2.icols[index])
          /\ c1.icols[index] # c2.icols[index]
          /\ c1.cols = c2.cols
          /\ c1.idx = c2.idx

\* The queries a call that returns has issued.
Expected(c) ==
    {Query("get_tables", conn, 0) : conn \in {1, 2}}
    \cup {Query(fn, conn, table) :
            fn \in {"get_table_columns", "get_indices"}, conn \in {1, 2},
            table \in Tables(c)}
    \cup {Query("get_index_columns", conn, index) :
            conn \in {1, 2}, index \in IndicesOf(c)}

\* C10: the per-table and per-index queries are issued, on both connections,
\* for the first connection's tables and indices only; a call that returns
\* has issued each of them once; and every block other than the table list
\* block is about a table of the first connection.
C10_DrivenByFirst ==
    /\ Range(queries) \subseteq Expected(c1)
    /\ Injective(queries)
    /\ Returned =>
          /\ Range(queries) = Expected(c1)
          /\ \A k \in DOMAIN Blocks(result) :
                Blocks(result)[k].kind # "table list mismatch" =>
                    Blocks(result)[k].table \in Tables(c1)

\* A table with an index exists on the second connection only.
C10_Witness ==
    /\ Returned
    /\ Tables(c1) # {}
    /\ \E table \in Tables(c2) \ Tables(c1) : c2.idx[table] # <<>>

\* ------------------------------------------------------------------------
\* One change between two otherwise identical schemas (x without, y with
\* the addition; x before, y after the renaming).
\* ------------------------------------------------------------------------
RemoveAt(s, p) ==
    [k \in 1..(Len(s) - 1) |-> IF k < p THEN s[k] ELSE s[k + 1]]

TableAdded(x, y, tt) ==
    /\ tt \notin Tables(x)
    /\ tt \in Tables(y)
    /\ x.cols = [y.cols EXCEPT ![tt] = <<>>]
    /\ x.idx = [y.idx EXCEPT ![tt] = <<>>]
    /\ x.icols = [ii \in IdxNames |->
                    IF ii \in Range(y.idx[tt]) THEN <<>> ELSE y.icols[ii]]

TableRenamed(x, y, tt, uu) ==
    /\ tt \in Tables(x)
    /\ uu \notin Tables(x)
    /\ y.cols = [x.cols EXCEPT ![tt] = <<>>, ![uu] = x.cols[tt]]
    /\ y.idx = [x.idx EXCEPT ![tt] = <<>>, ![uu] = x.idx[tt]]
    /\ y.icols = x.icols

ColumnAdded(x, y, tt) ==
    /\ tt \in Tables(x)
    /\ \E p \in DOMAIN y.cols[tt] : x.cols = [y.cols EXCEPT ![tt] = RemoveAt(@, p)]
    /\ x.idx = y.idx
    /\ x.icols = y.icols

ColumnRenamed(x, y, tt) ==
    /\ tt \in Tables(x)
    /\ x.idx = y.idx
    /\ \E p \in DOMAIN x.cols[tt] : \E new \in ColNames \ Range(x.cols[tt]) :
          /\ y.cols = [x.cols EXCEPT ![tt][p] = new]
          /\ y.icols = [ii \in IdxNames |->
                          IF ii \in Range(x.idx[tt])
                          THEN [k \in DOMAIN x.icols[ii] |->
                                  IF x.icols[ii][k] = x.cols[tt][p] THEN new
                                  ELSE x.icols[ii][k]]
                          ELSE x.icols[ii]]

IndexAdded(x, y, tt, ii) ==
    /\ ii \notin IndicesOf(x)
    /\ ii \in Range(y.idx[tt])
    /\ x.cols = y.cols
    /\ x.idx = [y.idx EXCEPT ![tt] = RemoveAt(@, Pos(@, ii))]
    /\ x.icols = [y.icols EXCEPT ![ii] = <<>>]

IndexRenamed(x, y, tt, ii, jj) ==
    /\ ii \in Range(x.idx[tt])
    /\ jj \notin IndicesOf(x)
    /\ x.cols = y.cols
    /\ y.idx = [x.idx EXCEPT ![tt][Pos(x.idx[tt], ii)] = jj]
    /\ y.icols = [x.icols EXCEPT ![ii] = <<>>, ![jj] = x.icols[ii]]

Change(kind, tables, indices) ==
    [kind |-> kind, tables |-> tables, indices |-> indices]

\* The single changes that take x to y, each with the tables and indices it
\* affects.
Changes(x, y) ==
    {Change("table", {tt}, {}) : tt \in {u \in TableNames : TableAdded(x, y, u)}}
    \cup {Change("table", {p[1], p[2]}, {}) :
            p \in {q \in TableNames \X TableNames : TableRenamed(x, y, q[1], q[2])}}
    \cup {Change("column", {tt}, {}) :
            tt \in {u \in TableNames : ColumnAdded(x, y, u) \/ ColumnRenamed(x, y, u)}}
    \cup {Change("index", {p[1]}, {p[2]}) :
            p \in {q \in TableNames \X IdxNames : IndexAdded(x, y, q[1], q[2])}}
    \cup {Change("index", {p[1]}, {p[2], p[3]}) :
            p \in {q \in TableNames \X IdxNames \X IdxNames :
                     IndexRenamed(x, y, q[1], q[2], q[3])}}

\* Added, removed or renamed in either one of the two.
OneChange(x, y) == Changes(x, y) \cup Changes(y, x)

\* A label line of the report names one of the tables or indices.
Names(res, tables, indices) ==
    \E k \in DOMAIN Blocks(res) :
        LET b == Blocks(res)[k]
        IN \/ b.kind # "table list mismatch" /\ b.table \in tables
           \/ b.kind = "index columns" /\ b.index[3] \in indices

\* C4 (as claimed): after one change the report is present and a label line
\* names the affected table or index.
C4_Sensitive ==
    Returned =>
        \A e \in OneChange(c1, c2) :
            /\ result.v.tag = "Some"
            /\ Names(result, e.tables, e.indices)

\* The table list block shows the table as a '+' line.
ListedAsAdded(res, tables) ==
    \E k \in DOMAIN Blocks(res) :
        /\ Blocks(res)[k].kind = "table list mismatch"
        /\ \E table \in tables : \E m \in DOMAIN Body(Blocks(res)[k].diff) :
              Body(Blocks(res)[k].diff)[m] = Line("+", Display("String", table))

\* C4 (amended): after one change the report is present; a label line names
\* the affected table or index unless the change is a table that only the
\* second connection has, which no label line names and which a '+' line
\* of the table list block shows.
C4_SensitiveAmended ==
    Returned =>
        \A e \in OneChange(c1, c2) :
            /\ result.v.tag = "Some"
            /\ IF e.kind = "table" /\ e.tables \cap Tables(c1) = {}
               THEN /\ ~Names(result, e.tables, e.indices)
                    /\ ListedAsAdded(result, e.tables)
               ELSE Names(result, e.tables, e.indices)

\* A column was renamed on the second connection.
C4_Witness ==
    /\ Returned
    /\ result.v.tag = "Some"
    /\ \E table \in Tables(c1) : ColumnRenamed(c1, c2, table)

\* ------------------------------------------------------------------------
\* The same comparison the other way round.
\* ------------------------------------------------------------------------
Mirror(d, e) ==
    /\ d[1].text = e[2].text
    /\ d[2].text = e[1].text
    /\ Keep(Body(d), {"-"}) = Keep(Body(e), {"+"})
    /\ Keep(Body(d), {"+"}) = Keep(Body(e), {"-"})
    /\ Keep(Body(d), {" "}) = Keep(Body(e), {" "})

Counterpart(b, e) ==
    /\ b.kind = e.kind
    /\ b.table = e.table
    /\ b.kind = "index columns" => b.index[3] = e.index[3]
    /\ b.n1 = e.n2
    /\ b.n2 = e.n1
    /\ Mirror(b.diff, e.diff)

HasCounterpart(b) ==
    \E m \in DOMAIN Blocks(result) : Counterpart(b, Blocks(result)[m])

\* C7 (as claimed): every block of the first call has its counterpart, with
\* '-' and '+' swapped, in the report of the call with the arguments swapped.
C7_Symmetric ==
    (call = 2 /\ Returned) =>
        \A k \in DOMAIN Blocks(first.result) :
            HasCounterpart(Blocks(first.result)[k])

\* The block is about something both connections have: the table list, a
\* table in both table lists, an index of that table on both connections.
\* (In the second call c1 is the first call's second connection.)
OnBoth(b) ==
    \/ b.kind = "table list mismatch"
    \/ b.kind \in {"column", "indices"} /\ b.table \in Tables(c1)
    \/ /\ b.kind = "index columns"
       /\ b.table \in Tables(c1)
       /\ b.index[3] \in Range(c1.idx[b.table])

\* The same for a block of the second call and the first call's report.
\* (In the second call c2 is the first call's first connection.)
OnBothBack(b) ==
    \/ b.kind = "table list mismatch"
    \/ b.kind \in {"column", "indices"} /\ b.table \in Tables(c2)
    \/ /\ b.kind = "index columns"
       /\ b.table \in Tables(c2)
       /\ b.index[3] \in Range(c2.idx[b.table])

HasCounterpartBack(b) ==
    \E m \in DOMAIN Blocks(first.result) :
        Counterpart(b, Blocks(first.result)[m])

\* C7 (amended): of a call and the call with the arguments swapped, each
\* one's blocks about something both connections have have their counterpart
\* in the other's report: the same kind, table and index name, the labels
\* swapped, the '-' lines of one the '+' lines of the other, the common
\* lines the same.
C7_SymmetricOnBoth ==
    (call = 2 /\ Returned) =>
        /\ \A k \in DOMAIN Blocks(first.result) :
              OnBoth(Blocks(first.result)[k]) =>
                  HasCounterpart(Blocks(first.result)[k])
        /\ \A k \in DOMAIN Blocks(result) :
              OnBothBack(Blocks(result)[k]) =>
                  HasCounterpartBack(Blocks(result)[k])

C7_Witness ==
    /\ call = 2
    /\ Returned
    /\ \E k \in DOMAIN Blocks(first.result) :
          /\ Blocks(first.result)[k].kind = "index columns"
          /\ OnBoth(Blocks(first.result)[k])
    /\ \E k \in DOMAIN Blocks(first.result) :
          Blocks(first.result)[k].kind = "column"

\* ------------------------------------------------------------------------
\* diff_slices
\* ------------------------------------------------------------------------
\* C8: diff_slices returns None exactly when the slices are equal; otherwise
\* the header lines "--- name1" and "+++ name2", then lines prefixed ' ',
\* '-' or '+', at least one of them '-' or '+', of which the ' ' and '-'
\* lines are slice1 and the ' ' and '+' lines are slice2, in order.
C8_DiffSlices ==
    (last.T # "none" /\ last.out # NoResult) =>
        /\ last.out = None <=> last.slice1 = last.slice2
        /\ last.out # None =>
              LET d == last.out.v
              IN /\ last.out.tag = "Some"
                 /\ Len(d) >= 3
                 /\ d[1] = Line("---", last.name1)
                 /\ d[2] = Line("+++", last.name2)
                 /\ \A k \in DOMAIN Body(d) : Body(d)[k].prefix \in {" ", "-", "+"}
                 /\ \E k \in DOMAIN Body(d) : Body(d)[k].prefix \in {"-", "+"}
                 /\ Keep(Body(d), {" ", "-"})
                       = [k \in DOMAIN last.slice1 |-> Display(last.T, last.slice1[k])]
                 /\ Keep(Body(d), {" ", "+"})
                       = [k \in DOMAIN last.slice2 |-> Display(last.T, last.slice2[k])]

\* A diff with common, removed and added lines.
C8_Witness ==
    /\ last.T # "none"
    /\ last.out # NoResult
    /\ last.out # None
    /\ \A prefix \in {" ", "-", "+"} :
          \E k \in DOMAIN Body(last.out.v) : Body(last.out.v)[k].prefix = prefix

\* ------------------------------------------------------------------------
\* Errors
\* ------------------------------------------------------------------------
FailedQuery(qs) == qs[Len(qs)]

BothFailed ==
    /\ call = 2
    /\ pc = "done"
    /\ result.tag = "Err"
    /\ first.result.tag = "Err"

\* C9 (as claimed): two failures at different introspection steps return
\* different error values.
C9_ErrorNamesStep ==
    (BothFailed /\ FailedQuery(queries) # FailedQuery(first.queries)) =>
        result.e # first.result.e

\* C9 (amended): the error get_diffs returns is the error the database
\* reported to the failing query, as it is: nothing in it names the query,
\* the table, the index or the connection.
C9_ErrorUntouched ==
    (pc = "done" /\ result.tag = "Err") =>
        /\ reported \in ErrKinds
        /\ result = Err(reported)

\* Two calls failed at different queries with the same error value.
C9_Witness ==
    /\ BothFailed
    /\ FailedQuery(queries).fn # FailedQuery(first.queries).fn
    /\ result = first.result

====
